---- MODULE Spec2Model ----
(***************************************************************************)
(* Model of simpleapi/message/formatter.py: the FormattersSingleton        *)
(* registry and the Formatter class hierarchy (Python 2).                  *)
(***************************************************************************)
EXTENDS Integers, Sequences, FiniteSets, TLC

VARIABLES
    _formatters,  \* FormattersSingleton._formatters: name -> constructor
    loadpc,       \* number of module-level register(...) statements executed
    snap,         \* the object a caller got from copy(), or NoSnap
    last,         \* the latest registry call: operation, arguments, outcome
    lastReg,      \* history: name -> constructor of its latest successful register
    nreg,         \* history: successful register calls made after module load
    nmut,         \* history: mutations a caller made through its snapshot
    inst,         \* the Formatter instance a caller holds, or NoInst
    result        \* the latest formatter method call: method, arguments, outcome

vars == <<_formatters, loadpc, snap, last, lastReg, nreg, nmut, inst, result>>

regvars == <<_formatters, loadpc, snap, last, lastReg, nreg, nmut>>

(***************************************************************************)
(* Bounds                                                                  *)
(***************************************************************************)
MaxRegs == 2

MaxSnapMut == 1

(***************************************************************************)
(* Python outcomes                                                         *)
(***************************************************************************)
Return(v) == [kind |-> "return", val |-> v]

Raise(e) == [kind |-> "raise", exc |-> e]

\* Python's None, as a constructor slot / lookup result
None == "None"

(***************************************************************************)
(* Constructors: the classes of the module and the ones callers supply     *)
(***************************************************************************)
\* classes that derive from Formatter (so that isinstance(probe, Formatter))
FormatterClasses ==
    {"Formatter", "JSONFormatter", "JSONPFormatter", "ValueFormatter",
     "PickleFormatter", "XMLFormatter", "CustomFormatter", "HiddenFormatter"}

\* constructors a caller may hand to register: PlainClass takes
\* (http_request, callback) but does not derive from Formatter
Constructors == FormatterClasses \cup {"PlainClass"}

\* names a caller registers under: a default built-in, the opt-in built-in,
\* and a name that is free after module load
RegNames == {"json", "pickle", "csv"}

\* the keys a caller writes or deletes in a snapshot
SnapNames == {"json", "csv"}

\* the names of the built-in registrations and the ones callers use
AllNames == {"json", "jsonp", "value", "pickle", "xml"} \cup RegNames

RegConstructors ==
    {"PickleFormatter", "CustomFormatter", "HiddenFormatter", "PlainClass"}

\* the class attribute __active_by_default__, where a class (or a base) sets it
ClassAttrs ==
    [c \in Constructors |->
        CASE c = "PickleFormatter" -> [__active_by_default__ |-> FALSE]
          [] c = "HiddenFormatter" -> [__active_by_default__ |-> FALSE]
          [] OTHER -> << >>]

\* getattr(cls, '__active_by_default__', True)
ActiveByDefault(c) ==
    IF "__active_by_default__" \in DOMAIN ClassAttrs[c]
    THEN ClassAttrs[c].__active_by_default__
    ELSE TRUE

\* isinstance(formatter(None, None), Formatter)
IsFormatter(c) == c \in FormatterClasses

(***************************************************************************)
(* Registry: pure parts                                                    *)
(***************************************************************************)
\* TypeError raised at line 31, AttributeError at lines 34 and 53
TypeConflict == "TypeError"

DuplicateName == "AttributeError"

Unsupported == "AttributeError"

\* value in self._formatters
__contains__(d, name) == name \in DOMAIN d

\* self._formatters.get(name)
getitem_raises(d, name) == IF name \in DOMAIN d THEN Return(d[name]) ELSE Raise("KeyError")

__getitem__(d, name) == IF name \in DOMAIN d THEN Return(d[name]) ELSE Return(None)

\* filter on getattr(item[1], '__active_by_default__', True), then the keys
get_defaults_all(d) == DOMAIN d

get_defaults(d) == {n \in DOMAIN d : ActiveByDefault(d[n])}

\* d[name] = formatter
DictSet(d, name, c) == [n \in DOMAIN d \cup {name} |-> IF n = name THEN c ELSE d[n]]

\* del d[name]
DictDel(d, name) == [n \in DOMAIN d \ {name} |-> d[n]]

\* FormattersSingleton.__setitem__(self, *args): the outcome and the registry
\* it leaves
setitem_stores(d, name, value) == [out |-> Return(None), d |-> DictSet(d, name, value)]

__setitem__(d, name, value) == [out |-> Raise(Unsupported), d |-> d]

\* the outcome of register(name, formatter, override) on registry d
register_no_type_check(d, name, formatter, override) ==
    IF name \in DOMAIN d /\ ~override THEN Raise(DuplicateName) ELSE Return(None)

register_no_dup_check(d, name, formatter, override) ==
    IF ~IsFormatter(formatter) THEN Raise(TypeConflict) ELSE Return(None)

register_outcome(d, name, formatter, override) ==
    IF ~IsFormatter(formatter) THEN Raise(TypeConflict)
    ELSE IF name \in DOMAIN d /\ ~override THEN Raise(DuplicateName)
    ELSE Return(None)

\* the registry after register(name, formatter, override)
register_dict(d, name, formatter, override) ==
    IF register_outcome(d, name, formatter, override).kind = "return"
    THEN DictSet(d, name, formatter)
    ELSE d

(***************************************************************************)
(* Snapshots: copy() hands out an object; the caller may hold the registry's*)
(* own dict (an alias) or a dict of its own                                *)
(***************************************************************************)
NoSnap == [held |-> FALSE]

\* dict(**self._formatters): a new dict with the same items
copy_alias(d) == [held |-> TRUE, alias |-> TRUE, items |-> d]

copy(d) == [held |-> TRUE, alias |-> FALSE, items |-> d]

(***************************************************************************)
(* Python values that travel through the formatters                        *)
(***************************************************************************)
PyNone == [t |-> "NoneType"]

PyInt(n) == [t |-> "int", n |-> n]

PyStr(s) == [t |-> "str", s |-> s]

PyUnicode(s) == [t |-> "unicode", s |-> s]

PyList(items) == [t |-> "list", items |-> items]

\* a dict as the sequence of its (key, value) items, keys being text
PyDict(items) == [t |-> "dict", items |-> items]

\* an instance of a class json cannot serialise (a datetime, say)
PyObject == [t |-> "object"]

\* byte strings holding bytes outside ASCII (written with their escapes)
NonAsciiStrs == {"caf\\xc3\\xa9"}

IsText(v) == v.t \in {"str", "unicode"}

\* bool(v)
Truthy(v) ==
    CASE v.t = "NoneType" -> FALSE
      [] v.t = "int" -> v.n # 0
      [] IsText(v) -> v.s # ""
      [] v.t \in {"list", "dict"} -> v.items # << >>
      [] OTHER -> TRUE

Digit(d) == CASE d = 0 -> "0" [] d = 1 -> "1" [] d = 2 -> "2" [] d = 3 -> "3"
              [] d = 4 -> "4" [] d = 5 -> "5" [] d = 6 -> "6" [] d = 7 -> "7"
              [] d = 8 -> "8" [] d = 9 -> "9"

RECURSIVE IntToStr(_)
IntToStr(n) ==
    IF n < 0 THEN "-" \o IntToStr(0 - n)
    ELSE IF n < 10 THEN Digit(n)
    ELSE IntToStr(n \div 10) \o Digit(n % 10)

(***************************************************************************)
(* The codecs the formatters wrap                                          *)
(***************************************************************************)
\* values the JSON encoder accepts
RECURSIVE JsonSerialisable(_)
JsonSerialisable(v) ==
    CASE v.t \in {"NoneType", "int"} -> TRUE
      [] IsText(v) -> v.s \notin NonAsciiStrs
      [] v.t = "list" -> \A i \in DOMAIN v.items : JsonSerialisable(v.items[i])
      [] v.t = "dict" -> \A i \in DOMAIN v.items : JsonSerialisable(v.items[i][2])
      [] OTHER -> FALSE

\* the JSON text of a serialisable value, with json.dumps' default separators
RECURSIVE JsonText(_)
RECURSIVE JsonItems(_, _)
JsonItems(v, i) ==
    LET item == IF v.t = "list" THEN JsonText(v.items[i])
                ELSE "\"" \o v.items[i][1] \o "\": " \o JsonText(v.items[i][2])
    IN IF i = Len(v.items) THEN item ELSE item \o ", " \o JsonItems(v, i + 1)

JsonText(v) ==
    CASE v.t = "NoneType" -> "null"
      [] v.t = "int" -> IntToStr(v.n)
      [] IsText(v) -> "\"" \o v.s \o "\""
      [] v.t = "list" -> IF v.items = << >> THEN "[]"
                         ELSE "[" \o JsonItems(v, 1) \o "]"
      [] v.t = "dict" -> IF v.items = << >> THEN "{}"
                         ELSE "{" \o JsonItems(v, 1) \o "}"

\* json.dumps(value)
json_dumps(v) ==
    IF JsonSerialisable(v) THEN Return(PyStr(JsonText(v))) ELSE Raise("TypeError")

\* what the JSON decoder hands back for the document of v: text comes back
\* as unicode
RECURSIVE JsonDecoded(_)
JsonDecoded(v) ==
    CASE IsText(v) -> PyUnicode(v.s)
      [] v.t = "list" -> PyList([i \in DOMAIN v.items |-> JsonDecoded(v.items[i])])
      [] v.t = "dict" ->
            PyDict([i \in DOMAIN v.items |->
                       <<v.items[i][1], JsonDecoded(v.items[i][2])>>])
      [] OTHER -> v

\* the values whose documents the decoder is asked to read
JsonValues ==
    {PyNone, PyInt(1), PyInt(42), PyStr("x"), PyList(<<PyInt(1), PyStr("x")>>),
     PyDict(<< <<"a", PyInt(1)>> >>)}

\* json.loads(value)
json_loads(v) ==
    IF ~IsText(v) THEN Raise("TypeError")
    ELSE IF \E d \in JsonValues : JsonText(d) = v.s
    THEN Return(JsonDecoded(CHOOSE d \in JsonValues : JsonText(d) = v.s))
    ELSE Raise("ValueError")

\* cPickle.dumps(value): a byte string that holds the pickle of value
cPickle_dumps(v) == Return([t |-> "str", s |-> "<pickle>", pickle |-> v])

\* cPickle.loads(value)
cPickle_loads(v) ==
    IF v.t # "str" THEN Raise("TypeError")
    ELSE IF "pickle" \in DOMAIN v THEN Return(v.pickle)
    ELSE Raise("UnpicklingError")

\* PythonToXML.dumps(value): a string that holds the XML document of value
PythonToXML_dumps(v) == Return([t |-> "str", s |-> "<xml>", xml |-> v])

\* PythonToXML.loads(value)
PythonToXML_loads(v) ==
    IF "xml" \in DOMAIN v THEN Return(v.xml) ELSE Raise("ExpatError")

\* unicode(value)
unicode(v) ==
    CASE v.t = "unicode" -> Return(v)
      [] v.t = "str" -> IF v.s \notin NonAsciiStrs
                        THEN Return(PyUnicode(v.s))
                        ELSE Raise("UnicodeDecodeError")
      [] v.t = "int" -> Return(PyUnicode(IntToStr(v.n)))
      [] v.t = "NoneType" -> Return(PyUnicode("None"))
      [] OTHER -> Return(PyUnicode("<repr>"))

\* value.encode("utf-8") when value is unicode
EncodeIfUnicode(v) == IF v.t = "unicode" THEN [v EXCEPT !.t = "str"] ELSE v

(***************************************************************************)
(* Formatter and its subclasses                                            *)
(***************************************************************************)
\* the classes whose methods the module defines
SourceClasses ==
    {"Formatter", "JSONFormatter", "JSONPFormatter", "ValueFormatter",
     "PickleFormatter", "XMLFormatter"}

BuiltinVariants == SourceClasses \ {"Formatter"}

\* Formatter.__init__(self, http_request, callback)
NewFormatter(cls, http_request, callback) ==
    [cls |-> cls, http_request |-> http_request, callback |-> callback]

\* "raise NotImplemented": NotImplemented is not an exception class, so the
\* raise statement itself fails with TypeError
RaiseNotImplemented == Raise("TypeError")

\* JSONPFormatter.build
JSONP_build_no_default(self, value) ==
    LET data == json_dumps(value) IN
    IF data.kind = "raise" THEN data
    ELSE IF self.callback.t = "NoneType"
    THEN Return(PyUnicode("simpleapiCallback" \o "(" \o data.val.s \o ")"))
    ELSE Return(PyUnicode(self.callback.s \o "(" \o data.val.s \o ")"))

JSONP_build(self, value) ==
    LET func == IF Truthy(self.callback) THEN self.callback
                ELSE PyStr("simpleapiCallback")
        data == json_dumps(value)
    IN IF data.kind = "raise" THEN data
       ELSE IF func.t = "str" /\ func.s \in NonAsciiStrs
       THEN Raise("UnicodeDecodeError")
       ELSE Return(PyUnicode(func.s \o "(" \o data.val.s \o ")"))

\* self.build(value)
build(self, value) ==
    CASE self.cls = "Formatter" -> RaiseNotImplemented
      [] self.cls = "JSONFormatter" -> json_dumps(value)
      [] self.cls = "JSONPFormatter" -> JSONP_build(self, value)
      [] self.cls = "ValueFormatter" -> Return(value)
      [] self.cls = "PickleFormatter" -> cPickle_dumps(value)
      [] self.cls = "XMLFormatter" -> PythonToXML_dumps(value)

\* self.parse(value)
parse(self, value) ==
    CASE self.cls = "Formatter" -> RaiseNotImplemented
      [] self.cls \in {"JSONFormatter", "JSONPFormatter"} -> json_loads(value)
      [] self.cls = "ValueFormatter" -> unicode(value)
      [] self.cls = "PickleFormatter" -> cPickle_loads(EncodeIfUnicode(value))
      [] self.cls = "XMLFormatter" -> PythonToXML_loads(value)

\* the caller left the action argument out
Omitted == "<omitted>"

\* kwargs(self, value, action='build') of the JSON, Value, Pickle and XML
\* formatters: no branch is taken for another action, so None is returned
kwargs_if_elif(self, value, action) ==
    LET a == IF action = Omitted THEN "build" ELSE action IN
    IF a = "build" THEN build(self, value)
    ELSE IF a = "parse" THEN parse(self, value)
    ELSE Return(PyNone)

\* JSONPFormatter.kwargs(self, value): it has no action parameter, and its
\* body reads a global name "action" that the module never binds
JSONP_kwargs(self, value, action) ==
    IF action # Omitted THEN Raise("TypeError") ELSE Raise("NameError")

\* self.kwargs(value, action)
kwargs(self, value, action) ==
    CASE self.cls = "Formatter" -> RaiseNotImplemented
      [] self.cls = "JSONPFormatter" -> JSONP_kwargs(self, value, action)
      [] OTHER -> kwargs_if_elif(self, value, action)

\* inputs of the formatter calls
Callbacks == {PyNone, PyStr("cb"), PyStr(""), PyStr("caf\\xc3\\xa9")}

BuildValues ==
    {PyNone, PyInt(1), PyStr("x"), PyDict(<< <<"a", PyInt(1)>> >>),
     PyList(<<PyInt(1), PyStr("x")>>), PyObject}

ParseValues ==
    {PyInt(42), PyStr("1"), PyStr("{\"a\": 1}"), PyUnicode("\"x\""), PyStr("{"),
     cPickle_dumps(PyObject).val, PythonToXML_dumps(PyInt(1)).val}

CallValues == BuildValues \cup ParseValues

CallActions == {"build", "parse", "delete", Omitted}

(***************************************************************************)
(* Module load, lines 175-179                                              *)
(***************************************************************************)
BuiltinRegistrations ==
    << <<"json", "JSONFormatter">>, <<"jsonp", "JSONPFormatter">>,
       <<"value", "ValueFormatter">>, <<"pickle", "PickleFormatter">>,
       <<"xml", "XMLFormatter">> >>

NumBuiltins == Len(BuiltinRegistrations)

Loaded == loadpc = NumBuiltins

NoInst == [cls |-> None]

NoCall == [method |-> "none"]

Init ==
    /\ _formatters = << >>
    /\ loadpc = 0
    /\ snap = NoSnap
    /\ last = [op |-> "none"]
    /\ lastReg = << >>
    /\ nreg = 0
    /\ nmut = 0
    /\ inst = NoInst
    /\ result = NoCall

\* the effect of one register call on the registry state
DoRegister(name, formatter, override) ==
    LET out == register_outcome(_formatters, name, formatter, override) IN
    /\ _formatters' = register_dict(_formatters, name, formatter, override)
    /\ last' = [op |-> "register", name |-> name, formatter |-> formatter,
                override |-> override, out |-> out]
    /\ lastReg' = IF out.kind = "return" THEN DictSet(lastReg, name, formatter)
                  ELSE lastReg
    \* a caller that holds the registry's own dict sees the change
    /\ snap' = IF snap.held /\ snap.alias
               THEN [snap EXCEPT !.items = _formatters']
               ELSE snap

\* formatters.register('json', JSONFormatter) ... at import time
Load ==
    /\ loadpc < NumBuiltins
    /\ DoRegister(BuiltinRegistrations[loadpc + 1][1],
                  BuiltinRegistrations[loadpc + 1][2], FALSE)
    /\ loadpc' = loadpc + 1
    /\ UNCHANGED <<nreg, nmut, inst, result>>

Register ==
    /\ Loaded
    /\ \E name \in RegNames, formatter \in RegConstructors, override \in BOOLEAN :
        /\ register_outcome(_formatters, name, formatter, override).kind = "return"
              => nreg < MaxRegs
        /\ DoRegister(name, formatter, override)
        /\ nreg' = IF last'.out.kind = "return" THEN nreg + 1 ELSE nreg
    /\ UNCHANGED <<loadpc, nmut, inst, result>>

\* formatters[name] = value
SetItem ==
    /\ Loaded
    /\ \E name \in RegNames, value \in RegConstructors :
        /\ _formatters' = __setitem__(_formatters, name, value).d
        /\ last' = [op |-> "setitem", name |-> name, formatter |-> value,
                    out |-> __setitem__(_formatters, name, value).out]
        /\ lastReg' = lastReg
        /\ snap' = IF snap.held /\ snap.alias
                   THEN [snap EXCEPT !.items = _formatters']
                   ELSE snap
    /\ UNCHANGED <<loadpc, nreg, nmut, inst, result>>

\* formatters[name]
GetItem ==
    /\ Loaded
    /\ \E name \in RegNames :
        last' = [op |-> "getitem", name |-> name,
                 out |-> __getitem__(_formatters, name)]
    /\ UNCHANGED <<_formatters, loadpc, snap, lastReg, nreg, nmut, inst, result>>

\* name in formatters
Contains ==
    /\ Loaded
    /\ \E name \in RegNames :
        last' = [op |-> "contains", name |-> name,
                 out |-> Return(__contains__(_formatters, name))]
    /\ UNCHANGED <<_formatters, loadpc, snap, lastReg, nreg, nmut, inst, result>>

\* formatters.get_defaults()
GetDefaults ==
    /\ Loaded
    /\ last' = [op |-> "get_defaults", out |-> Return(get_defaults(_formatters))]
    /\ UNCHANGED <<_formatters, loadpc, snap, lastReg, nreg, nmut, inst, result>>

\* snapshot = formatters.copy()
Copy ==
    /\ Loaded
    /\ snap' = copy(_formatters)
    /\ last' = [op |-> "copy", out |-> Return(snap'.items)]
    /\ nmut' = 0
    /\ UNCHANGED <<_formatters, loadpc, lastReg, nreg, inst, result>>

\* the caller writes through its snapshot: snapshot[name] = value
SnapSet ==
    /\ snap.held
    /\ nmut < MaxSnapMut
    /\ \E name \in SnapNames, value \in {"PlainClass", "CustomFormatter"} :
        /\ snap' = [snap EXCEPT !.items = DictSet(snap.items, name, value)]
        /\ _formatters' = IF snap.alias THEN snap'.items ELSE _formatters
        /\ last' = [op |-> "snap_set", name |-> name, formatter |-> value,
                    out |-> Return(None)]
    /\ nmut' = nmut + 1
    /\ UNCHANGED <<loadpc, lastReg, nreg, inst, result>>

\* del snapshot[name]
SnapDel ==
    /\ snap.held
    /\ nmut < MaxSnapMut
    /\ \E name \in DOMAIN snap.items \cap SnapNames :
        /\ snap' = [snap EXCEPT !.items = DictDel(snap.items, name)]
        /\ _formatters' = IF snap.alias THEN snap'.items ELSE _formatters
        /\ last' = [op |-> "snap_del", name |-> name, out |-> Return(None)]
    /\ nmut' = nmut + 1
    /\ UNCHANGED <<loadpc, lastReg, nreg, inst, result>>

(***************************************************************************)
(* A caller instantiates a formatter and calls it                          *)
(***************************************************************************)
\* formatter = cls(http_request, callback)
Instantiate ==
    /\ Loaded
    /\ \E cls \in SourceClasses, callback \in Callbacks :
        inst' = NewFormatter(cls, PyNone, callback)
    /\ result' = NoCall
    /\ UNCHANGED regvars

\* formatter.build(value)
Build ==
    /\ inst # NoInst
    /\ \E value \in CallValues :
        result' = [method |-> "build", value |-> value, out |-> build(inst, value)]
    /\ UNCHANGED <<inst, regvars>>

\* formatter.parse(value)
Parse ==
    /\ inst # NoInst
    /\ \E value \in CallValues :
        result' = [method |-> "parse", value |-> value, out |-> parse(inst, value)]
    /\ UNCHANGED <<inst, regvars>>

\* formatter.kwargs(value, action) and formatter.kwargs(value)
Kwargs ==
    /\ inst # NoInst
    /\ \E value \in CallValues, action \in CallActions :
        result' = [method |-> "kwargs", value |-> value, action |-> action,
                   out |-> kwargs(inst, value, action)]
    /\ UNCHANGED <<inst, regvars>>

NextFmt ==
    \/ Load
    \/ Instantiate
    \/ Build
    \/ Parse
    \/ Kwargs

FmtSpec == Init /\ [][NextFmt]_vars

Next ==
    \/ Load
    \/ Register
    \/ SetItem
    \/ GetItem
    \/ Contains
    \/ GetDefaults
    \/ Copy
    \/ SnapSet
    \/ SnapDel

Spec == Init /\ [][Next]_vars

(***************************************************************************)
(* Properties of the registry                                              *)
(***************************************************************************)
\* the attribute test of get_defaults, read off the class attributes
AttributeTrue(c) ==
    ~("__active_by_default__" \in DOMAIN ClassAttrs[c]
        /\ ClassAttrs[c].__active_by_default__ = FALSE)

SameElsewhere(name) ==
    /\ DOMAIN _formatters' \ {name} = DOMAIN _formatters \ {name}
    /\ \A n \in DOMAIN _formatters \ {name} : _formatters'[n] = _formatters[n]

\* C1: register of an already registered name with a conforming constructor:
\* without override it fails with DuplicateName and the registry (and so
\* lookup(name)) is unchanged; with override it succeeds, lookup(name) then
\* returns the new constructor and every other name keeps its mapping.
C1_Step ==
    (/\ last'.op = "register"
     /\ last'.name \in DOMAIN _formatters
     /\ IsFormatter(last'.formatter))
    => IF ~last'.override
       THEN /\ last'.out = Raise(DuplicateName)
            /\ _formatters' = _formatters
            /\ __getitem__(_formatters', last'.name)
                 = Return(_formatters[last'.name])
       ELSE /\ last'.out = Return(None)
            /\ __getitem__(_formatters', last'.name) = Return(last'.formatter)
            /\ SameElsewhere(last'.name)

C1_RegisterExisting == [][C1_Step]_vars

C1_Witness ==
    /\ last.op = "register"
    /\ last.name = "json"
    /\ last.override
    /\ last.out = Return(None)
    /\ _formatters["json"] = "CustomFormatter"
    /\ _formatters["pickle"] = "PickleFormatter"

\* C2: register with a constructor whose probe is not a Formatter fails with
\* TypeConflict for every name and both values of override and leaves the
\* registry unchanged; so every registered name maps to a constructor whose
\* probe is a Formatter.
C2_Step ==
    (last'.op = "register" /\ last'.formatter \notin FormatterClasses)
    => /\ last'.out = Raise(TypeConflict)
       /\ _formatters' = _formatters

C2_AllConform == \A n \in DOMAIN _formatters : _formatters[n] \in FormatterClasses

C2_ProbeRejects == [][C2_Step]_vars /\ []C2_AllConform

C2_Witness ==
    /\ last.op = "register"
    /\ last.name = "json"
    /\ last.formatter = "PlainClass"
    /\ last.override
    /\ last.out = Raise(TypeConflict)
    /\ "csv" \in DOMAIN _formatters

\* C3: get_defaults() is exactly the set of registered names whose current
\* constructor has the active-by-default attribute true or absent, hence a
\* subset of the registered names; with only the five built-ins registered
\* it is {json, jsonp, value, xml}.
C3_Defaults ==
    Loaded =>
        LET D == get_defaults(_formatters) IN
        /\ D = {n \in DOMAIN lastReg : AttributeTrue(lastReg[n])}
        /\ D \subseteq DOMAIN lastReg
        /\ nreg = 0 => D = {"json", "jsonp", "value", "xml"}
        /\ last.op = "get_defaults" => last.out = Return(D)

C3_Witness ==
    /\ last.op = "get_defaults"
    /\ "csv" \in DOMAIN _formatters
    /\ _formatters["csv"] = "HiddenFormatter"
    /\ _formatters["pickle"] = "CustomFormatter"
    /\ last.out = Return({"json", "jsonp", "value", "xml", "pickle"})

\* C4: copy() returns a mapping with exactly the current registrations, and
\* a later mutation of that mapping (setting or deleting a key) leaves
\* lookup, contains and get_defaults of the registry as they were, for
\* every name.
C4_Step ==
    /\ last'.op = "copy"
       => /\ last'.out = Return(_formatters)
          /\ snap'.items = _formatters
          /\ _formatters' = _formatters
    /\ last'.op \in {"snap_set", "snap_del"}
       => /\ \A n \in AllNames :
               /\ __getitem__(_formatters', n) = __getitem__(_formatters, n)
               /\ __contains__(_formatters', n) = __contains__(_formatters, n)
          /\ get_defaults(_formatters') = get_defaults(_formatters)

C4_SnapshotIsolated == [][C4_Step]_vars

C4_Witness ==
    /\ last.op = "snap_del"
    /\ last.name = "json"
    /\ snap.held
    /\ "json" \notin DOMAIN snap.items
    /\ __getitem__(_formatters, "json") = Return("JSONFormatter")

\* C5: item assignment on the registry, for any key (registered or not) and
\* any value, fails with Unsupported and leaves the registry unchanged.
C5_Step ==
    last'.op = "setitem"
    => /\ last'.out = Raise("AttributeError")
       /\ _formatters' = _formatters

C5_SetItemUnsupported == [][C5_Step]_vars

C5_Witness ==
    /\ last.op = "setitem"
    /\ last.name = "csv"
    /\ last.formatter = "CustomFormatter"
    /\ last.out.kind = "raise"
    /\ "csv" \notin DOMAIN _formatters

\* C6: lookup never raises: it returns the constructor of the latest
\* successful register of the name, and None for a name never registered;
\* it does not modify the registry; contains(name) holds exactly for the
\* registered names.
C6_State ==
    Loaded =>
        /\ \A n \in AllNames :
             LET r == __getitem__(_formatters, n) IN
             /\ r.kind = "return"
             /\ r.val = IF n \in DOMAIN lastReg THEN lastReg[n] ELSE None
             /\ __contains__(_formatters, n) <=> n \in DOMAIN lastReg
        /\ last.op = "getitem" => last.out = __getitem__(_formatters, last.name)
        /\ last.op = "contains"
             => last.out = Return(last.name \in DOMAIN lastReg)

C6_Step == last'.op \in {"getitem", "contains"} => _formatters' = _formatters

C6_LookupTotal == []C6_State /\ [][C6_Step]_vars

C6_Witness ==
    /\ last.op = "getitem"
    /\ last.name = "csv"
    /\ last.out = Return(None)
    /\ nreg > 0
    /\ lastReg["json"] = "HiddenFormatter"

(***************************************************************************)
(* Properties of the formatters                                            *)
(***************************************************************************)
\* C7: for every built-in variant and every value, kwargs(value, "build")
\* returns what build(value) returns and kwargs(value, "parse") what
\* parse(value) returns; the JSONP variant takes action as a parameter.
C7_DispatchRoutes ==
    (/\ result.method = "kwargs"
     /\ inst.cls \in BuiltinVariants
     /\ result.action \in {"build", "parse"})
    => result.out = IF result.action = "build" THEN build(inst, result.value)
                    ELSE parse(inst, result.value)

\* C8: build, parse and kwargs on an instance of the bare Formatter class
\* fail with a NotImplemented error, for every argument.
C8_BareNotImplemented ==
    (inst.cls = "Formatter" /\ result.method \in {"build", "parse", "kwargs"})
    => result.out = Raise("NotImplementedError")

\* the text "<name>(<json of value>)" as unicode
Wrapped(name, value) == Return(PyUnicode(name \o "(" \o JsonText(value) \o ")"))

\* a JSONP build of a value JSON can serialise, the callback being None or
\* ASCII text
C9_Case ==
    /\ inst.cls = "JSONPFormatter"
    /\ result.method = "build"
    /\ JsonSerialisable(result.value)
    /\ inst.callback = PyNone \/ inst.callback.s \notin NonAsciiStrs

\* C9 as stated: JSONP build(value) returns "<callbackName>(<json of value>)"
\* with the callback given at construction, the literal simpleapiCallback
\* when the callback is None, and a supplied callback, the empty string
\* included, used as given.
C9_CallbackAsGiven ==
    C9_Case => result.out = Wrapped(IF inst.callback = PyNone
                                    THEN "simpleapiCallback"
                                    ELSE inst.callback.s, result.value)

\* C9 amended: JSONP build(value), for a value JSON can serialise and a
\* callback that is None or ASCII text, returns "<callbackName>(<json>)"
\* where callbackName is the callback when it is a non-empty string and the
\* literal simpleapiCallback when it is None or the empty string.
C9_CallbackOrDefault ==
    C9_Case
    => result.out = Wrapped(IF inst.callback \in {PyNone, PyStr("")}
                            THEN "simpleapiCallback"
                            ELSE inst.callback.s, result.value)

C9_Witness ==
    /\ inst.cls = "JSONPFormatter"
    /\ inst.callback = PyStr("")
    /\ result.method = "build"
    /\ result.value = PyDict(<< <<"a", PyInt(1)>> >>)
    /\ result.out = Return(PyUnicode("simpleapiCallback({\"a\": 1})"))

\* C10: for every variant, kwargs(value, action) with an action other than
\* "build" and "parse" ends in an InvalidAction error and returns no value.
C10_InvalidAction ==
    (/\ result.method = "kwargs"
     /\ inst.cls \in BuiltinVariants
     /\ result.action \notin {"build", "parse", Omitted})
    => result.out.kind = "raise" /\ result.out.exc = "InvalidAction"

====
